---- MODULE Spec2Model ----
(***************************************************************************)
(* Model of the rich-text layout engine of the dialog generator:           *)
(* src/src/renderer/textRenderer/textRenderer.ts (class TextRenderer and   *)
(* the module-level metric helpers measureWidth / measureHeight).          *)
(*                                                                         *)
(* Conventions                                                             *)
(*  - A style object is an entry of `heap`; a style reference is its index *)
(*    in `heap`, so that `===` on styles is equality of references.        *)
(*  - A token reference (currentTag, tagStack) is the index of the token   *)
(*    in `tokens`; NoTag is `null`.                                        *)
(*  - Numbers are integers.  The field x of a render item is recorded in   *)
(*    halves (x = twice the coordinate) so that the two divisions by 2 of  *)
(*    the 'center' mode are exact; widths, heights and y are plain.        *)
(***************************************************************************)
EXTENDS Integers, Sequences, FiniteSets, TLC

\* ------------------------------------------------------------------ bounds
MaxTokens == 3
MaxCalls == 2
MaxMeasures == 4
MaxEvents == 3
MaxConnects == 2

\* ------------------------------------------------------------- input sets
XStarts == {0, 3}
XEnds == {100}
YStarts == {5}
Alignments == {"left", "center", "right"}

NoTag == 0
NoStyle == 0
Undefined == -1

Max(a, b) == IF a >= b THEN a ELSE b

\* ------------------------------------------------------- command registry
\* ./textCommands: a map from command name to a style transform.
textCommandNames == {"k", "size", "stroke"}

textCommandsHas(name) == name \in textCommandNames

\* The transform registered under `name`, applied to a style: it returns a
\* new style object and leaves its input alone.
textCommandsGet(name, style, argument) ==
  IF name = "k"
  THEN [style EXCEPT !.letterSpacing = @ + argument]
  ELSE IF name = "size"
  THEN [style EXCEPT !.fontSize = @ + argument]
  ELSE [style EXCEPT !.strokeWidth = argument, !.strokeColor = "black"]

CommandNames == textCommandNames \cup {"q"}

\* the command names with the arguments they are opened with
CommandArguments == {<<"k", 2>>, <<"size", 2>>, <<"size", -1>>, <<"stroke", 2>>, <<"q", 2>>}

\* ---------------------------------------------------------------- tokens
Token(type, content, commandName, argument) ==
  [type |-> type, content |-> content, commandName |-> commandName,
   argument |-> argument]

Contents == {<<"a">>, <<" ">>, <<"a", "a">>}

Tokens ==
  {Token("text", c, "", 0) : c \in Contents}
  \cup {Token("newline", <<>>, "", 0)}
  \cup {Token("command", <<>>, c[1], c[2]) : c \in CommandArguments}
  \cup {Token("commandClose", <<>>, n, 0) : n \in CommandNames}

\* the file paths of 'add-persistent-content-pack' events
FilePaths == {"a.zip", "b.zip"}

TokenSeqs == UNION {[1..n -> Tokens] : n \in 0..MaxTokens}

\* ----------------------------------------------------------------- styles
ITextStyle(fontName, fontSize, isBold, isItalic, strokeWidth, strokeColor, letterSpacing, lineSpacing) ==
  [fontName |-> fontName, fontSize |-> fontSize, isBold |-> isBold,
   isItalic |-> isItalic, strokeWidth |-> strokeWidth,
   strokeColor |-> strokeColor, letterSpacing |-> letterSpacing,
   lineSpacing |-> lineSpacing]

BaseStyles == {ITextStyle("aller", 5, FALSE, FALSE, 0, "", 0, 1)}

\* ----------------------------------------------------------- render items
IDrawCharacterItem(character, style, height, width) ==
  [type |-> "character", character |-> character, style |-> style,
   height |-> height, width |-> width, x |-> 0, y |-> 0]

INewlineItem(height) ==
  [type |-> "newline", character |-> "", style |-> NoStyle,
   height |-> height, width |-> 0, x |-> 0, y |-> 0]

\* ------------------------------------------------------------------ state
VARIABLES
  tokens,             \* the token sequence handed to getRenderParts
  pos,                \* index of the token the for-loop is at
  pc,                 \* "interpret" | "ready" | "failed"
  error,              \* the Error thrown by getRenderParts, if any
  renderParts,        \* the render items (local array, then this.renderParts)
  styleStack,         \* getRenderParts: styleStack
  tagStack,           \* getRenderParts: tagStack
  currentStyle,       \* getRenderParts: currentStyle (style reference)
  currentStyleHeight, \* getRenderParts: currentStyleHeight
  currentTag,         \* getRenderParts: currentTag (token reference)
  heap,               \* the style objects allocated so far
  lastStyle,          \* module variable lastStyle of measureWidth
  tmpContext,         \* the font tmpContext is configured to
  applyCalls,         \* times measureWidth applied a style to tmpContext
  widthCalls,         \* the styles measureWidth was called with, in order
  heightCache,        \* module variable heightCache of measureHeight
  offsetHeightReads,  \* the fonts div.offsetHeight was read for, in order
  measured,           \* the last call of measureHeight: style and result
  drawn,              \* the draw calls of the last render(), in order
  ctxApplies,         \* times the last render() applied a style to ctx
  lastCall,           \* the last public call on the instance, its arguments
                      \* and the render items it started from
  calls,              \* number of calls made so far
  store,              \* Electron: this.$store is set
  vuexHistory,        \* Electron: this.vuexHistory is set
  bgInvalidation,     \* Electron: this.bgInvalidation, 0 for null
  pendingContentPacks,\* Electron: this.pendingContentPacks
  transactions,       \* callbacks handed to vuexHistory.transaction, not
                      \* yet run
  dispatched,         \* the $store.dispatch calls made so far, in order
  received,           \* the file paths of the 'add-persistent-content-pack'
                      \* events received so far, in order
  connectCalls        \* number of connectToStore calls so far

locals == <<pos, styleStack, tagStack, currentStyle, currentStyleHeight,
            currentTag>>
widthState == <<lastStyle, tmpContext, applyCalls, widthCalls>>
heightState == <<heightCache, offsetHeightReads, measured>>
metrics == <<widthState, heightState>>
canvas == <<drawn, ctxApplies>>
electron == <<store, vuexHistory, bgInvalidation, pendingContentPacks,
              transactions, dispatched, received, connectCalls>>
textRenderer == <<tokens, pc, error, renderParts, locals, heap, metrics,
                  lastCall, calls, canvas>>
vars == <<textRenderer, electron>>

\* --------------------------------------------------------------- metrics
\* applyTextStyleToCanvas: the font string set on a context; the string is
\* determined by, and determines, these four fields.
CanvasFont(style) ==
  [isItalic |-> style.isItalic, isBold |-> style.isBold,
   fontSize |-> style.fontSize, fontName |-> style.fontName]

DefaultCanvasFont ==
  [isItalic |-> FALSE, isBold |-> FALSE, fontSize |-> 10,
   fontName |-> "sans-serif"]

\* tmpContext.measureText(character).width under a configured font: the
\* platform's glyph advance, here proportional to the font size.
MeasureText(font, character) ==
  IF character = "a" THEN 2 * font.fontSize ELSE font.fontSize

\* div.offsetHeight of the probe element for a font size and family.
OffsetHeight(fontName, fontSize) == fontSize + 2

\* the state of measureWidth: lastStyle, tmpContext and the two counts
MeasureState ==
  [lastStyle |-> lastStyle, tmpContext |-> tmpContext,
   applyCalls |-> applyCalls, widthCalls |-> widthCalls]

\* variant of measureWidthState: styles are compared field by field
measureWidthStateByValue(ms, textStyle) ==
  LET called == [ms EXCEPT !.widthCalls = Append(@, textStyle)] IN
  IF ms.lastStyle = NoStyle \/ heap[textStyle] # heap[ms.lastStyle]
  THEN [called EXCEPT !.lastStyle = textStyle,
                      !.tmpContext = CanvasFont(heap[textStyle]),
                      !.applyCalls = @ + 1]
  ELSE called

\* measureWidth, the state it leaves behind
measureWidthState(ms, textStyle) ==
  LET called == [ms EXCEPT !.widthCalls = Append(@, textStyle)] IN
  IF textStyle # ms.lastStyle
  THEN [called EXCEPT !.lastStyle = textStyle,
                      !.tmpContext = CanvasFont(heap[textStyle]),
                      !.applyCalls = @ + 1]
  ELSE called

\* measureWidth, the value it returns
measureWidth(ms, textStyle, character) ==
  MeasureText(measureWidthState(ms, textStyle).tmpContext, character)

\* variant of HeightKey: the line spacing is part of the key
HeightKeyWithSpacing(style) ==
  <<style.fontSize, style.fontName, style.lineSpacing>>

\* measureHeight: the key of heightCache
HeightKey(style) == <<style.fontSize, style.fontName>>

\* measureHeight, the reads of div.offsetHeight it leaves behind
measureHeightReads(reads, cache, style) ==
  IF HeightKey(style) \in DOMAIN cache
  THEN reads
  ELSE Append(reads, [fontName |-> style.fontName,
                      fontSize |-> style.fontSize])

\* measureHeight, the cache it leaves behind
measureHeightCache(cache, style) ==
  IF HeightKey(style) \in DOMAIN cache
  THEN cache
  ELSE [k \in DOMAIN cache \cup {HeightKey(style)} |->
          IF k \in DOMAIN cache THEN cache[k]
          ELSE OffsetHeight(style.fontName, style.fontSize)]

\* measureHeight, the value it returns
measureHeight(cache, style) ==
  measureHeightCache(cache, style)[HeightKey(style)] * style.lineSpacing

EmptyCache == [k \in {} |-> 0]

\* -------------------------------------------------------------- lastCall
Call(op, alignment, xStart, xEnd, yStart, before) ==
  [op |-> op, alignment |-> alignment, xStart |-> xStart, xEnd |-> xEnd,
   yStart |-> yStart, before |-> before]

NoError == [kind |-> "none", pos |-> 0]

\* --------------------------------------------------------------- Electron
NoHandle == 0

\* the field initialisers of class Electron
NewElectron ==
  /\ store = FALSE
  /\ vuexHistory = FALSE
  /\ bgInvalidation = NoHandle
  /\ pendingContentPacks = <<>>
  /\ transactions = <<>>
  /\ dispatched = <<>>
  /\ received = <<>>
  /\ connectCalls = 0

\* ------------------------------------------------------------------- Init
\* new TextRenderer(str, baseStyle), at the entry of getRenderParts.
Init ==
  /\ tokens \in TokenSeqs
  /\ \E baseStyle \in BaseStyles :
       /\ heap = <<baseStyle>>
       /\ heightCache = measureHeightCache(EmptyCache, baseStyle)
       /\ offsetHeightReads = measureHeightReads(<<>>, EmptyCache, baseStyle)
       /\ measured = [style |-> baseStyle,
                      height |-> measureHeight(EmptyCache, baseStyle)]
       /\ currentStyleHeight = measureHeight(EmptyCache, baseStyle)
  /\ currentStyle = 1
  /\ currentTag = NoTag
  /\ styleStack = <<>>
  /\ tagStack = <<>>
  /\ renderParts = <<>>
  /\ pos = 1
  /\ pc = "interpret"
  /\ error = NoError
  /\ lastStyle = NoStyle
  /\ tmpContext = DefaultCanvasFont
  /\ applyCalls = 0
  /\ widthCalls = <<>>
  /\ drawn = <<>>
  /\ ctxApplies = 0
  /\ lastCall = Call("new", "", 0, 0, 0, <<>>)
  /\ calls = 0
  /\ NewElectron

\* ---------------------------------------------------------- getRenderParts
AtToken(type) ==
  /\ pc = "interpret"
  /\ pos <= Len(tokens)
  /\ tokens[pos].type = type

Throw(kind) ==
  /\ pc' = "failed"
  /\ error' = [kind |-> kind, pos |-> pos]

\* Array.prototype.pop: the value popped (undefined on an empty array)
ArrayPop(stack) ==
  IF Len(stack) = 0 THEN Undefined ELSE stack[Len(stack)]

\* Array.prototype.pop: the array left behind
ArrayPopRest(stack) ==
  IF Len(stack) = 0 THEN stack ELSE SubSeq(stack, 1, Len(stack) - 1)

\* variant of CaseCommand: the stacks are pushed before the registry is asked
CaseCommandPushFirst ==
  /\ AtToken("command")
  /\ LET token == tokens[pos] IN
     IF textCommandsHas(token.commandName)
     THEN LET newStyle == textCommandsGet(token.commandName,
                                          heap[currentStyle], token.argument)
          IN /\ styleStack' = Append(styleStack, currentStyle)
             /\ tagStack' = Append(tagStack, currentTag)
             /\ heap' = Append(heap, newStyle)
             /\ currentStyle' = Len(heap) + 1
             /\ currentStyleHeight' = measureHeight(heightCache, newStyle)
             /\ heightCache' = measureHeightCache(heightCache, newStyle)
             /\ offsetHeightReads' = measureHeightReads(offsetHeightReads,
                                                        heightCache, newStyle)
             /\ measured' = [style |-> newStyle,
                             height |-> measureHeight(heightCache, newStyle)]
             /\ currentTag' = pos
             /\ pos' = pos + 1
             /\ UNCHANGED <<pc, error>>
     ELSE /\ Throw("NoSuchCommand")
          /\ styleStack' = Append(styleStack, currentStyle)
          /\ tagStack' = Append(tagStack, currentTag)
          /\ UNCHANGED <<pos, currentStyle, currentStyleHeight, currentTag,
                         heap, heightState>>
  /\ UNCHANGED <<electron, tokens, renderParts, widthState, lastCall, calls, canvas>>

\* case 'command'
CaseCommand ==
  /\ AtToken("command")
  /\ LET token == tokens[pos] IN
     IF textCommandsHas(token.commandName)
     THEN LET newStyle == textCommandsGet(token.commandName,
                                          heap[currentStyle], token.argument)
          IN /\ styleStack' = Append(styleStack, currentStyle)
             /\ tagStack' = Append(tagStack, currentTag)
             /\ heap' = Append(heap, newStyle)
             /\ currentStyle' = Len(heap) + 1
             /\ currentStyleHeight' = measureHeight(heightCache, newStyle)
             /\ heightCache' = measureHeightCache(heightCache, newStyle)
             /\ offsetHeightReads' = measureHeightReads(offsetHeightReads,
                                                        heightCache, newStyle)
             /\ measured' = [style |-> newStyle,
                             height |-> measureHeight(heightCache, newStyle)]
             /\ currentTag' = pos
             /\ pos' = pos + 1
             /\ UNCHANGED <<pc, error>>
     ELSE /\ Throw("NoSuchCommand")
          /\ UNCHANGED <<locals, heap, heightState>>
  /\ UNCHANGED <<electron, tokens, renderParts, widthState, lastCall, calls, canvas>>

\* variant of TagAfterClose: the closed tag stays the current one
TagAfterCloseStale(tag, stack) == tag

\* currentTag after a close that matched: currentTag = tagStack.pop()!
TagAfterClose(tag, stack) == ArrayPop(stack)

\* variant of CloseMismatch: a close of any command open in the stack passes
CloseMismatchAnyOpen(token, tag, stack) ==
  /\ token.commandName # tokens[tag].commandName
  /\ \A j \in 1..Len(stack) :
       stack[j] = NoTag \/ tokens[stack[j]].commandName # token.commandName

\* the test of the second throw of case 'commandClose'
CloseMismatch(token, tag, stack) ==
  token.commandName # tokens[tag].commandName

\* variant of StyleAfterClose: the style of the closed command stays
StyleAfterCloseStale(style, stack) == style

\* currentStyle after a close that matched: currentStyle = styleStack.pop()!
StyleAfterClose(style, stack) == ArrayPop(stack)

\* case 'commandClose'
CaseCommandClose ==
  /\ AtToken("commandClose")
  /\ LET token == tokens[pos] IN
     IF currentTag = NoTag \/ currentTag = Undefined
     THEN /\ Throw("NoOpenCommand")
          /\ UNCHANGED locals
     ELSE IF CloseMismatch(token, currentTag, tagStack)
     THEN /\ Throw("WrongCommandClosed")
          /\ UNCHANGED locals
     ELSE /\ currentTag' = TagAfterClose(currentTag, tagStack)
          /\ tagStack' = ArrayPopRest(tagStack)
          /\ currentStyle' = StyleAfterClose(currentStyle, styleStack)
          /\ styleStack' = ArrayPopRest(styleStack)
          /\ pos' = pos + 1
          /\ UNCHANGED <<pc, error, currentStyleHeight>>
  /\ UNCHANGED <<electron, tokens, renderParts, heap, metrics, lastCall, calls, canvas>>

\* case 'newline'
CaseNewline ==
  /\ AtToken("newline")
  /\ renderParts' = Append(renderParts, INewlineItem(currentStyleHeight))
  /\ pos' = pos + 1
  /\ UNCHANGED <<electron, tokens, pc, error, styleStack, tagStack, currentStyle,
                 currentStyleHeight, currentTag, heap, metrics, lastCall,
                 calls, canvas>>

\* variant of TextItems: one item for the whole text token
TextItemsOnePerToken(content, i, ms, style, height) ==
  IF i > Len(content) THEN <<>>
  ELSE <<IDrawCharacterItem(content[i], style, height,
                            measureWidth(ms, style, content[i]))>>

\* case 'text': the items pushed for the characters content[i..]
RECURSIVE TextItems(_, _, _, _, _)
TextItems(content, i, ms, style, height) ==
  IF i > Len(content) THEN <<>>
  ELSE <<IDrawCharacterItem(content[i], style, height,
                            measureWidth(ms, style, content[i]))>>
       \o TextItems(content, i + 1, measureWidthState(ms, style), style,
                    height)

\* case 'text': the state of measureWidth after the characters content[i..]
RECURSIVE TextMeasured(_, _, _, _)
TextMeasured(content, i, ms, style) ==
  IF i > Len(content) THEN ms
  ELSE TextMeasured(content, i + 1, measureWidthState(ms, style), style)

\* case 'text'
CaseText ==
  /\ AtToken("text")
  /\ LET ms == MeasureState
         after == TextMeasured(tokens[pos].content, 1, ms, currentStyle)
     IN /\ renderParts' = renderParts \o TextItems(tokens[pos].content, 1, ms,
                                                  currentStyle,
                                                  currentStyleHeight)
        /\ lastStyle' = after.lastStyle
        /\ tmpContext' = after.tmpContext
        /\ applyCalls' = after.applyCalls
        /\ widthCalls' = after.widthCalls
  /\ pos' = pos + 1
  /\ UNCHANGED <<electron, tokens, pc, error, styleStack, tagStack, currentStyle,
                 currentStyleHeight, currentTag, heap, heightState, lastCall,
                 calls, canvas>>

\* variant of Return: commands left open are an error
ReturnChecked ==
  /\ pc = "interpret"
  /\ pos > Len(tokens)
  /\ IF currentTag = NoTag
     THEN pc' = "ready" /\ UNCHANGED error
     ELSE Throw("UnclosedCommand")
  /\ UNCHANGED <<electron, tokens, renderParts, locals, heap, metrics, lastCall,
                 calls, canvas>>

\* the end of the for-loop: return renderParts
Return ==
  /\ pc = "interpret"
  /\ pos > Len(tokens)
  /\ pc' = "ready"
  /\ UNCHANGED <<electron, tokens, error, renderParts, locals, heap, metrics, lastCall,
                 calls, canvas>>

\* variant of MatchesWhitespace: nothing counts as whitespace
MatchesNothing(character) == FALSE

\* ------------------------------------------------------------------ quote
\* part.character.match(/\s/)
MatchesWhitespace(character) == character \in {" ", "\t", "\n", "\r"}

\* Array.prototype.splice(index, 0, item) with a 0-based index
Splice(parts, index, item) ==
  SubSeq(parts, 1, index) \o <<item>> \o SubSeq(parts, index + 1, Len(parts))

\* the item quote() inserts next to `part`
QuoteItem(ms, part) ==
  IDrawCharacterItem("\"", part.style, part.height,
                     measureWidth(ms, part.style, "\""))

\* variant of QuoteLoop: the loop steps over the character it just quoted
RECURSIVE QuoteLoopSkip(_, _, _, _, _)
QuoteLoopSkip(parts, i, lastChar, quoted, ms) ==
  IF i >= Len(parts)
  THEN [parts |-> parts, lastChar |-> lastChar, quoted |-> quoted, ms |-> ms]
  ELSE LET part == parts[i + 1] IN
       IF part.type # "character"
       THEN QuoteLoopSkip(parts, i + 1, lastChar, quoted, ms)
       ELSE IF MatchesWhitespace(part.character)
       THEN QuoteLoopSkip(parts, i + 1, lastChar, quoted, ms)
       ELSE IF ~quoted
       THEN QuoteLoopSkip(Splice(parts, i, QuoteItem(ms, part)), i + 2, i,
                          TRUE, measureWidthState(ms, part.style))
       ELSE QuoteLoopSkip(parts, i + 1, i, quoted, ms)

\* quote(): the for-loop, from the 0-based index i on; the result is the
\* loop's variables and the state of measureWidth
RECURSIVE QuoteLoop(_, _, _, _, _)
QuoteLoop(parts, i, lastChar, quoted, ms) ==
  IF i >= Len(parts)
  THEN [parts |-> parts, lastChar |-> lastChar, quoted |-> quoted, ms |-> ms]
  ELSE LET part == parts[i + 1] IN
       IF part.type # "character"
       THEN QuoteLoop(parts, i + 1, lastChar, quoted, ms)
       ELSE IF MatchesWhitespace(part.character)
       THEN QuoteLoop(parts, i + 1, lastChar, quoted, ms)
       ELSE IF ~quoted
       THEN QuoteLoop(Splice(parts, i, QuoteItem(ms, part)), i + 1, i, TRUE,
                      measureWidthState(ms, part.style))
       ELSE QuoteLoop(parts, i + 1, i, quoted, ms)

\* quote(): the part after the loop
QuoteEnd(l) ==
  IF l.quoted /\ l.lastChar >= 0
  THEN LET part == l.parts[l.lastChar + 1] IN
       [parts |-> Splice(l.parts, l.lastChar + 1, QuoteItem(l.ms, part)),
        ms |-> measureWidthState(l.ms, part.style)]
  ELSE [parts |-> l.parts, ms |-> l.ms]

\* quote()
Quote ==
  /\ pc = "ready"
  /\ calls < MaxCalls
  /\ LET ms == MeasureState
         r == QuoteEnd(QuoteLoop(renderParts, 0, -1, FALSE, ms))
     IN /\ renderParts' = r.parts
        /\ lastStyle' = r.ms.lastStyle
        /\ tmpContext' = r.ms.tmpContext
        /\ applyCalls' = r.ms.applyCalls
        /\ widthCalls' = r.ms.widthCalls
  /\ lastCall' = Call("quote", "", 0, 0, 0, renderParts)
  /\ calls' = calls + 1
  /\ UNCHANGED <<electron, tokens, pc, error, locals, heap, heightState, canvas>>

\* ----------------------------------------------------------- fixAlignment
\* fixLine(): the x the line starts at, in halves
FixLineStart(alignment, xStart, xEnd, lineWidth) ==
  IF alignment = "center"
  THEN 2 * xStart + (xEnd - xStart) - lineWidth
  ELSE IF alignment = "right"
  THEN 2 * (xEnd - lineWidth)
  ELSE 2 * xStart

\* variant of FixLineLoop: the cursor advances before the item is placed
RECURSIVE FixLineLoopAdvanceFirst(_, _, _, _)
FixLineLoopAdvanceFirst(parts, currentLine, k, x) ==
  IF k > Len(currentLine) THEN parts
  ELSE LET item == currentLine[k] IN
       FixLineLoopAdvanceFirst(
         [parts EXCEPT ![item].x = x + 2 * parts[item].width], currentLine,
         k + 1, x + 2 * parts[item].width)

\* fixLine(): the for-loop over currentLine[k..], x in halves
RECURSIVE FixLineLoop(_, _, _, _)
FixLineLoop(parts, currentLine, k, x) ==
  IF k > Len(currentLine) THEN parts
  ELSE LET item == currentLine[k] IN
       FixLineLoop([parts EXCEPT ![item].x = x], currentLine, k + 1,
                   x + 2 * parts[item].width)

\* fixLine()
fixLine(parts, currentLine, lineWidth, alignment, xStart, xEnd) ==
  FixLineLoop(parts, currentLine, 1,
              FixLineStart(alignment, xStart, xEnd, lineWidth))

\* fixAlignment(): the first loop, which fills lineHeights
RECURSIVE LineHeights(_, _, _, _)
LineHeights(parts, i, lineHeight, lineHeights) ==
  IF i > Len(parts) THEN Append(lineHeights, lineHeight)
  ELSE LET h == Max(lineHeight, parts[i].height) IN
       LineHeights(parts, i + 1, h,
                   IF parts[i].type = "newline"
                   THEN Append(lineHeights, h) ELSE lineHeights)

\* variant of HeightOrZero: the entry of the line that was just completed
HeightOrZeroCompleted(lineHeights, index) == lineHeights[index]

\* lineHeights[index] || 0 with a 0-based index
HeightOrZero(lineHeights, index) ==
  IF index + 1 \in DOMAIN lineHeights THEN lineHeights[index + 1] ELSE 0

\* the line width after an item was added to the line
WidthAfterItem(lineWidth, item) == lineWidth + item.width

\* variant of WidthAfterSpacing: the letter spacing is left out of the line
WidthWithoutSpacing(lineWidth, spacing) == lineWidth

\* the line width after the letter spacing of a character was added
WidthAfterSpacing(lineWidth, spacing) == lineWidth + spacing

\* variant of WidthAfterNewline: the line width is not reset
WidthKeptAfterNewline(lineWidth) == lineWidth

\* the line width the loop goes on with after a newline item
WidthAfterNewline(lineWidth) == 0

\* fixAlignment(): the second loop, from item i on, and the final fixLine();
\* currentLine holds references to (indices of) items of parts
RECURSIVE AlignLoop(_, _, _, _, _, _, _, _, _, _)
AlignLoop(parts, i, y, line, lineWidth, currentLine, lineHeights, alignment, xStart, xEnd) ==
  IF i > Len(parts)
  THEN fixLine(parts, currentLine, lineWidth, alignment, xStart, xEnd)
  ELSE LET placed == [parts EXCEPT ![i].y = y]
           pushed == Append(currentLine, i)
           width == WidthAfterItem(lineWidth, parts[i])
       IN IF parts[i].type = "newline"
          THEN AlignLoop(fixLine(placed, pushed, width, alignment, xStart,
                                 xEnd),
                         i + 1, y + HeightOrZero(lineHeights, line + 1),
                         line + 1, WidthAfterNewline(width), <<>>,
                         lineHeights, alignment, xStart, xEnd)
          ELSE LET lastItem == pushed[Len(pushed)]
                   spacing == heap[placed[lastItem].style].letterSpacing
               IN AlignLoop([placed EXCEPT ![lastItem].width = @ + spacing],
                            i + 1, y, line, WidthAfterSpacing(width, spacing),
                            pushed,
                            lineHeights, alignment, xStart, xEnd)

\* fixAlignment(alignment, xStart, xEnd, yStart)
FixAlignment(alignment, xStart, xEnd, yStart) ==
  /\ pc = "ready"
  /\ calls < MaxCalls
  /\ renderParts' = AlignLoop(renderParts, 1, yStart, 0, 0, <<>>,
                              LineHeights(renderParts, 1, 0, <<>>),
                              alignment, xStart, xEnd)
  /\ lastCall' = Call("fixAlignment", alignment, xStart, xEnd, yStart,
                      renderParts)
  /\ calls' = calls + 1
  /\ UNCHANGED <<electron, tokens, pc, error, locals, heap, metrics, canvas>>

Align ==
  \E alignment \in Alignments, xStart \in XStarts, xEnd \in XEnds,
     yStart \in YStarts :
    FixAlignment(alignment, xStart, xEnd, yStart)

\* ------------------------------------------------------------------ render
\* a call of ctx.strokeText / ctx.fillText; applied is the style that the
\* last applyTextStyleToCanvas(style, ctx) before the call has set up
DrawCall(op, part, applied) ==
  [op |-> op, character |-> part.character, x |-> part.x, y |-> part.y,
   style |-> part.style, applied |-> applied]

\* render(): let currentStyle = null; nothing applied to ctx, nothing drawn
RenderStart ==
  [currentStyle |-> NoStyle, applied |-> NoStyle, drawn |-> <<>>,
   applies |-> 0]

\* variant of StyleChanged: a style is applied for the first item only
StyleChangedFirstOnly(style, current) == current = NoStyle

\* part.style !== currentStyle
StyleChanged(style, current) == style # current

\* if (part.style !== currentStyle) { currentStyle = part.style;
\*   applyTextStyleToCanvas(currentStyle, ctx); }
ApplyIfChanged(rs, part) ==
  IF StyleChanged(part.style, rs.currentStyle)
  THEN [rs EXCEPT !.currentStyle = part.style, !.applied = part.style,
                  !.applies = @ + 1]
  ELSE rs

\* variant of HasStroke: every character is stroked
HasStrokeAlways(style) == TRUE

\* currentStyle.strokeWidth > 0 && currentStyle.strokeColor > ''
HasStroke(style) == style.strokeWidth > 0 /\ style.strokeColor # ""

\* render(): the first loop, from item i on
RECURSIVE StrokeLoop(_, _, _)
StrokeLoop(parts, i, rs) ==
  IF i > Len(parts) THEN rs
  ELSE IF parts[i].type = "newline" THEN StrokeLoop(parts, i + 1, rs)
  ELSE LET styled == ApplyIfChanged(rs, parts[i]) IN
       StrokeLoop(parts, i + 1,
                  IF HasStroke(heap[styled.currentStyle])
                  THEN [styled EXCEPT !.drawn =
                          Append(@, DrawCall("stroke", parts[i],
                                             styled.applied))]
                  ELSE styled)

\* render(): the second loop, from item i on
RECURSIVE FillLoop(_, _, _)
FillLoop(parts, i, rs) ==
  IF i > Len(parts) THEN rs
  ELSE IF parts[i].type = "newline" THEN FillLoop(parts, i + 1, rs)
  ELSE LET styled == ApplyIfChanged(rs, parts[i]) IN
       FillLoop(parts, i + 1,
                [styled EXCEPT !.drawn =
                   Append(@, DrawCall("fill", parts[i], styled.applied))])

\* render(ctx)
Render ==
  /\ pc = "ready"
  /\ calls < MaxCalls
  /\ LET rs == FillLoop(renderParts, 1,
                        StrokeLoop(renderParts, 1, RenderStart))
     IN /\ drawn' = rs.drawn
        /\ ctxApplies' = rs.applies
  /\ lastCall' = Call("render", "", 0, 0, 0, renderParts)
  /\ calls' = calls + 1
  /\ UNCHANGED <<electron, tokens, pc, error, renderParts, locals, heap, metrics>>

Next ==
  \/ CaseCommand
  \/ CaseCommandClose
  \/ CaseNewline
  \/ CaseText
  \/ Return
  \/ Quote
  \/ Align
  \/ Render

Spec == Init /\ [][Next]_vars

\* ------------------------------------------ the metric helpers on their own
\* measureWidth and measureHeight are module functions with module state;
\* here they are called in any order with styles of any renderer.

\* Style objects of the callers: 2 differs from 1 in line spacing, bold and
\* stroke only, 3 has another font size, 4 has another family, and 5 has
\* the fields of 1 but is another object.
StylePool ==
  <<ITextStyle("aller", 5, FALSE, FALSE, 0, "", 0, 1),
    ITextStyle("aller", 5, TRUE, FALSE, 2, "black", 0, 2),
    ITextStyle("aller", 7, FALSE, FALSE, 0, "", 0, 1),
    ITextStyle("riffic", 5, FALSE, FALSE, 0, "", 0, 1),
    ITextStyle("aller", 5, FALSE, FALSE, 0, "", 0, 1)>>

NoMeasure ==
  [style |-> ITextStyle("", 0, FALSE, FALSE, 0, "", 0, 0), height |-> 0]

\* module initialisation: no renderer, empty caches
InitMetrics ==
  /\ tokens = <<>>
  /\ heap = StylePool
  /\ heightCache = EmptyCache
  /\ offsetHeightReads = <<>>
  /\ measured = NoMeasure
  /\ currentStyleHeight = 0
  /\ currentStyle = NoStyle
  /\ currentTag = NoTag
  /\ styleStack = <<>>
  /\ tagStack = <<>>
  /\ renderParts = <<>>
  /\ pos = 1
  /\ pc = "idle"
  /\ error = NoError
  /\ lastStyle = NoStyle
  /\ tmpContext = DefaultCanvasFont
  /\ applyCalls = 0
  /\ widthCalls = <<>>
  /\ drawn = <<>>
  /\ ctxApplies = 0
  /\ lastCall = Call("none", "", 0, 0, 0, <<>>)
  /\ calls = 0
  /\ NewElectron

\* measureHeight(textStyle)
MeasureHeightCall(textStyle) ==
  /\ calls < MaxMeasures
  /\ heightCache' = measureHeightCache(heightCache, heap[textStyle])
  /\ offsetHeightReads' = measureHeightReads(offsetHeightReads, heightCache,
                                             heap[textStyle])
  /\ measured' = [style |-> heap[textStyle],
                  height |-> measureHeight(heightCache, heap[textStyle])]
  /\ calls' = calls + 1
  /\ UNCHANGED <<electron, tokens, pc, error, renderParts, locals, heap, widthState,
                 lastCall, canvas>>

\* measureWidth(textStyle, character)
MeasureWidthCall(textStyle, character) ==
  /\ calls < MaxMeasures
  /\ LET after == measureWidthState(MeasureState, textStyle) IN
       /\ lastStyle' = after.lastStyle
       /\ tmpContext' = after.tmpContext
       /\ applyCalls' = after.applyCalls
       /\ widthCalls' = after.widthCalls
  /\ calls' = calls + 1
  /\ UNCHANGED <<electron, tokens, pc, error, renderParts, locals, heap, heightState,
                 lastCall, canvas>>

NextMetrics ==
  \/ \E textStyle \in DOMAIN heap : MeasureHeightCall(textStyle)
  \/ \E textStyle \in DOMAIN heap : MeasureWidthCall(textStyle, "a")

SpecMetrics == InitMetrics /\ [][NextMetrics]_vars

\* ------------------------------------------- Electron: persistent packs
\* a callback handed to vuexHistory.transaction: it dispatches action type
\* with the file path of the event (payload "filePath"), with the array
\* this.pendingContentPacks as it is when the callback runs (payload
\* "pendingContentPacks"), or with installedBackgroundsPack
Transaction(type, payload, filePath) ==
  [type |-> type, payload |-> payload, filePath |-> filePath]

\* a $store.dispatch(type, payload) call; paths are the file paths in the
\* payload, isArray tells an array payload from a single string
Dispatch(type, paths, isArray) ==
  [type |-> type, paths |-> paths, isArray |-> isArray]

\* variant of NotConnected: the handler takes the store for missing always
NotConnectedEver == TRUE

\* !this.$store || !this.vuexHistory
NotConnected == ~store \/ ~vuexHistory

\* the handler of 'add-persistent-content-pack'
AddPersistentContentPack(filePath) ==
  /\ Len(received) < MaxEvents
  /\ received' = Append(received, filePath)
  /\ IF NotConnected
     THEN /\ pendingContentPacks' = Append(pendingContentPacks, filePath)
          /\ UNCHANGED transactions
     ELSE /\ transactions' =
               Append(transactions,
                      Transaction("content/loadContentPacks", "filePath",
                                  filePath))
          /\ UNCHANGED pendingContentPacks
  /\ UNCHANGED <<store, vuexHistory, bgInvalidation, dispatched,
                 connectCalls, textRenderer>>

\* invalidateInstalledBGs(), called with the store connected: the handle of
\* the animation frame requested, or the one already there
InvalidateInstalledBGs(handle) == IF handle # NoHandle THEN handle ELSE 1

\* connectToStore(vuexHistory, store)
ConnectToStore ==
  /\ connectCalls < MaxConnects
  /\ connectCalls' = connectCalls + 1
  /\ vuexHistory' = TRUE
  /\ store' = TRUE
  /\ bgInvalidation' = InvalidateInstalledBGs(bgInvalidation)
  /\ transactions' =
       IF Len(pendingContentPacks) > 0
       THEN Append(transactions,
                   Transaction("content/loadContentPacks",
                               "pendingContentPacks", ""))
       ELSE transactions
  /\ UNCHANGED <<pendingContentPacks, dispatched, received, textRenderer>>

\* the animation frame requested by invalidateInstalledBGs():
\* updateInstalledBGs()
UpdateInstalledBGs ==
  /\ bgInvalidation # NoHandle
  /\ bgInvalidation' = NoHandle
  /\ transactions' =
       IF ~vuexHistory \/ ~store THEN transactions
       ELSE Append(transactions,
                   Transaction("content/replaceContentPack",
                               "installedBackgroundsPack", ""))
  /\ UNCHANGED <<store, vuexHistory, pendingContentPacks, dispatched,
                 received, connectCalls, textRenderer>>

\* the sequence without its entry at index
RemoveAt(seq, index) ==
  SubSeq(seq, 1, index - 1) \o SubSeq(seq, index + 1, Len(seq))

\* the dispatch a transaction callback makes when it runs
DispatchOf(transaction) ==
  IF transaction.payload = "filePath"
  THEN Dispatch(transaction.type, <<transaction.filePath>>, FALSE)
  ELSE IF transaction.payload = "pendingContentPacks"
  THEN Dispatch(transaction.type, pendingContentPacks, TRUE)
  ELSE Dispatch(transaction.type, <<>>, FALSE)

\* vuexHistory.transaction runs one of the callbacks it was handed: every
\* callback runs once, at any later time and in any order
RunTransaction(index) ==
  /\ dispatched' = Append(dispatched, DispatchOf(transactions[index]))
  /\ transactions' = RemoveAt(transactions, index)
  /\ UNCHANGED <<store, vuexHistory, bgInvalidation, pendingContentPacks,
                 received, connectCalls, textRenderer>>

\* new Electron(): no TextRenderer is involved
InitElectron == InitMetrics

NextElectron ==
  \/ \E filePath \in FilePaths : AddPersistentContentPack(filePath)
  \/ ConnectToStore
  \/ UpdateInstalledBGs
  \/ \E index \in DOMAIN transactions : RunTransaction(index)

SpecElectron == InitElectron /\ [][NextElectron]_vars

\* ======================================================= claims: interpret
\* What the token syntax alone says about the first n tokens: whether every
\* command-open so far names a registered command and every command-close
\* so far closes the innermost open command, and the names still open.
RECURSIVE Nesting(_, _)
Nesting(toks, n) ==
  IF n = 0 THEN [ok |-> TRUE, open |-> <<>>]
  ELSE LET p == Nesting(toks, n - 1)
           t == toks[n]
       IN IF ~p.ok THEN p
          ELSE IF t.type = "command"
          THEN IF t.commandName \in {"k", "size", "stroke"}
               THEN [p EXCEPT !.open = Append(@, t.commandName)]
               ELSE [p EXCEPT !.ok = FALSE]
          ELSE IF t.type = "commandClose"
          THEN IF Len(p.open) > 0 /\ p.open[Len(p.open)] = t.commandName
               THEN [p EXCEPT !.open = SubSeq(@, 1, Len(@) - 1)]
               ELSE [p EXCEPT !.ok = FALSE]
          ELSE p

\* The kinds of items the first n tokens call for: a pair per character of
\* a text token and a pair per newline token, in token order.
RECURSIVE ExpectedKinds(_, _)
ExpectedKinds(toks, n) ==
  IF n = 0 THEN <<>>
  ELSE LET t == toks[n] IN
       ExpectedKinds(toks, n - 1) \o
       (IF t.type = "text"
        THEN [j \in 1..Len(t.content) |-> <<"character", t.content[j]>>]
        ELSE IF t.type = "newline" THEN <<(<<"newline", "">>)>>
        ELSE <<>>)

KindsOf(parts) == [j \in 1..Len(parts) |-> <<parts[j].type, parts[j].character>>]

Constructed == pc = "ready" /\ lastCall.op = "new"

\* C1: a token sequence whose command-opens are all registered and whose
\* command-closes all match the innermost open command never makes
\* getRenderParts fail, and the sequence it returns holds one character item
\* per character of the text tokens and one newline item per newline token,
\* in token order, and nothing else.
C1_OneItemPerCharacter ==
  Nesting(tokens, Len(tokens)).ok =>
    /\ pc # "failed"
    /\ Constructed => KindsOf(renderParts) = ExpectedKinds(tokens, Len(tokens))

C1_Witness ==
  /\ Constructed
  /\ Nesting(tokens, Len(tokens)).ok
  /\ \E i, j, k \in 1..Len(tokens) :
       /\ i < j /\ j < k
       /\ tokens[i].type = "command"
       /\ tokens[j].type = "text" /\ Len(tokens[j].content) = 2
       /\ tokens[k].type = "commandClose"

AtClose ==
  /\ pc = "interpret"
  /\ pos <= Len(tokens)
  /\ tokens[pos].type = "commandClose"

\* C2: a command-close whose name differs from the innermost open command's
\* name makes the pass fail with the mismatched-close error at that token,
\* whatever the depth and whatever is open further down the stack.
C2_MismatchedCloseFails ==
  [][(/\ AtClose
      /\ LET n == Nesting(tokens, pos - 1) IN
           /\ n.ok
           /\ Len(n.open) > 0
           /\ n.open[Len(n.open)] # tokens[pos].commandName)
     => (/\ pc' = "failed"
         /\ error' = [kind |-> "WrongCommandClosed", pos |-> pos])]_vars

\* crossing tags: open a, open b, close a
C2_Witness ==
  /\ pc = "failed"
  /\ error.kind = "WrongCommandClosed"
  /\ Len(tagStack) = 2
  /\ tokens[tagStack[2]].commandName = tokens[pos].commandName
  /\ tokens[currentTag].commandName # tokens[pos].commandName

\* C3: a command-close met while no command is open makes the pass fail
\* with the unmatched-close error at that token, at the start of the input
\* as well as after commands were opened and closed again.
C3_UnmatchedCloseFails ==
  [][(/\ AtClose
      /\ LET n == Nesting(tokens, pos - 1) IN n.ok /\ n.open = <<>>)
     => (/\ pc' = "failed"
         /\ error' = [kind |-> "NoOpenCommand", pos |-> pos])]_vars

C3_Witness ==
  /\ pc = "failed"
  /\ error.kind = "NoOpenCommand"
  /\ pos = 3
  /\ tokens[1].type = "command"
  /\ tokens[2].type = "commandClose"

\* C4: a command-open whose name is not registered makes the pass fail with
\* the unknown-command error at that token, and the style stack, the tag
\* stack and the current style are as they were before the token.
C4_UnknownCommandFails ==
  [][(/\ pc = "interpret"
      /\ pos <= Len(tokens)
      /\ tokens[pos].type = "command"
      /\ tokens[pos].commandName \notin {"k", "size", "stroke"})
     => (/\ pc' = "failed"
         /\ error' = [kind |-> "NoSuchCommand", pos |-> pos]
         /\ styleStack' = styleStack
         /\ tagStack' = tagStack
         /\ currentStyle' = currentStyle)]_vars

C4_Witness ==
  /\ pc = "failed"
  /\ error.kind = "NoSuchCommand"
  /\ Len(tagStack) = 2
  /\ currentStyle = 3

\* C5 as stated: a token stream that ends with a command still open never
\* yields a constructed renderer.
C5_UnclosedFails ==
  LET n == Nesting(tokens, Len(tokens)) IN
    (n.ok /\ n.open # <<>>) => pc # "ready"

\* C5 as amended: at the end of the token stream getRenderParts returns the
\* items built so far, without an error, also when commands are still open.
C5_UnclosedReturns ==
  [][(pc = "interpret" /\ pos > Len(tokens) /\ currentTag # NoTag)
     => (pc' = "ready" /\ error' = NoError /\ renderParts' = renderParts)]_vars

C5_Witness ==
  /\ Constructed
  /\ Len(tagStack) = 2
  /\ Len(renderParts) > 0

\* ========================================================== claims: quote
\* a character item that is not whitespace
Visible(part) ==
  part.type = "character" /\ part.character \notin {" ", "\t", "\n", "\r"}

VisibleAt(parts) == {i \in 1..Len(parts) : Visible(parts[i])}

FirstVisible(parts) ==
  CHOOSE i \in VisibleAt(parts) : \A j \in VisibleAt(parts) : i <= j

LastVisible(parts) ==
  CHOOSE i \in VisibleAt(parts) : \A j \in VisibleAt(parts) : j <= i

\* a quotation mark with the style and the height of `part`, not yet placed
QuotationMarkOf(item, part) ==
  /\ item.type = "character"
  /\ item.character = "\""
  /\ item.style = part.style
  /\ item.height = part.height
  /\ item.x = 0
  /\ item.y = 0

\* C6: quote() on a sequence with a visible character adds two items: a
\* quotation mark right before the first visible character and one right
\* after the last, each with the style and height of that character; all
\* former items are kept, in their order.
C6_QuoteBoundsVisibleSpan ==
  (lastCall.op = "quote" /\ VisibleAt(lastCall.before) # {}) =>
    LET b == lastCall.before
        f == FirstVisible(b)
        l == LastVisible(b)
    IN /\ Len(renderParts) = Len(b) + 2
       /\ QuotationMarkOf(renderParts[f], b[f])
       /\ QuotationMarkOf(renderParts[l + 2], b[l])
       /\ \A i \in 1..Len(b) :
            renderParts[IF i < f THEN i ELSE IF i <= l THEN i + 1 ELSE i + 2]
              = b[i]

\* whitespace before the first and an item after the last visible character
C6_Witness ==
  /\ lastCall.op = "quote"
  /\ VisibleAt(lastCall.before) # {}
  /\ FirstVisible(lastCall.before) > 1
  /\ LastVisible(lastCall.before) < Len(lastCall.before)
  /\ renderParts[FirstVisible(lastCall.before)].character = "\""

\* C7: quote() on a sequence without a visible character changes nothing.
C7_QuoteNothingVisible ==
  (lastCall.op = "quote" /\ VisibleAt(lastCall.before) = {}) =>
    renderParts = lastCall.before

C7_Witness ==
  /\ lastCall.op = "quote"
  /\ VisibleAt(lastCall.before) = {}
  /\ renderParts = lastCall.before
  /\ \E i, j \in 1..Len(renderParts) :
       /\ renderParts[i].type = "newline"
       /\ renderParts[j].type = "character"

\* ==================================================== claims: fixAlignment
\* the first items of the lines: a line ends with its newline item
LineStarts(parts) ==
  {i \in 1..Len(parts) : i = 1 \/ parts[i - 1].type = "newline"}

\* the last item of the line that starts at s
LineEnd(parts, s) ==
  CHOOSE e \in s..Len(parts) :
    /\ e = Len(parts) \/ parts[e].type = "newline"
    /\ \A j \in s..(e - 1) : parts[j].type # "newline"

RECURSIVE StoredWidth(_, _, _)
StoredWidth(parts, s, e) ==
  IF s > e THEN 0 ELSE parts[s].width + StoredWidth(parts, s + 1, e)

\* the total of the stored widths of the line that starts at s
LineTotal(parts, s) == StoredWidth(parts, s, LineEnd(parts, s))

Aligned(alignment) ==
  lastCall.op = "fixAlignment" /\ lastCall.alignment = alignment

WidthsOf(parts) == [i \in 1..Len(parts) |-> parts[i].width]

\* C8: after fixAlignment in mode 'left' every line starts at xStart and
\* every further item of a line starts where the item before it ends (x is
\* in halves); widths 10,10,10 from xStart = 0 give x = 0, 10, 20.
C8_LeftRunsFromXStart ==
  Aligned("left") =>
    /\ \A i \in 1..Len(renderParts) :
         renderParts[i].x =
           IF i \in LineStarts(renderParts)
           THEN 2 * lastCall.xStart
           ELSE renderParts[i - 1].x + 2 * renderParts[i - 1].width
    /\ (lastCall.xStart = 0 /\ WidthsOf(renderParts) = <<10, 10, 10>>
        /\ \A i \in 1..3 : renderParts[i].type = "character")
       => [i \in 1..3 |-> renderParts[i].x] = <<2 * 0, 2 * 10, 2 * 20>>

\* two lines from xStart = 3
C8_Witness ==
  /\ Aligned("left")
  /\ lastCall.xStart = 3
  /\ Len(renderParts) = 3
  /\ renderParts[2].type = "newline"
  /\ renderParts[2].x > 6
  /\ renderParts[3].x = 6

\* C9: after fixAlignment in mode 'right' every line ends at xEnd and
\* starts at xEnd minus the total of its stored widths (x is in halves); a
\* single line of total width 30 with xEnd = 100 starts at 70.
C9_RightEndsAtXEnd ==
  Aligned("right") =>
    /\ \A s \in LineStarts(renderParts) :
         LET e == LineEnd(renderParts, s) IN
           /\ renderParts[e].x + 2 * renderParts[e].width = 2 * lastCall.xEnd
           /\ renderParts[s].x
                = 2 * (lastCall.xEnd - LineTotal(renderParts, s))
    /\ (lastCall.xStart = 0 /\ lastCall.xEnd = 100
        /\ Len(renderParts) > 0
        /\ LineEnd(renderParts, 1) = Len(renderParts)
        /\ LineTotal(renderParts, 1) = 30)
       => renderParts[1].x = 2 * 70

\* a line of two characters with letter spacing, closed by a newline
C9_Witness ==
  /\ Aligned("right")
  /\ Len(renderParts) = 3
  /\ renderParts[3].type = "newline"
  /\ renderParts[1].width # lastCall.before[1].width
  /\ renderParts[2].width # lastCall.before[2].width
  /\ renderParts[3].x = 2 * lastCall.xEnd

\* C10: after fixAlignment in mode 'center' every line starts at
\* xStart + (xEnd - xStart)/2 - lineWidth/2 for the total of its own stored
\* widths (x is in halves); a single line of total width 20 between 0 and
\* 100 starts at 40.
C10_CenterPerLine ==
  Aligned("center") =>
    /\ \A s \in LineStarts(renderParts) :
         renderParts[s].x
           = 2 * lastCall.xStart + (lastCall.xEnd - lastCall.xStart)
             - LineTotal(renderParts, s)
    /\ (lastCall.xStart = 0 /\ lastCall.xEnd = 100
        /\ Len(renderParts) > 0
        /\ LineEnd(renderParts, 1) = Len(renderParts)
        /\ LineTotal(renderParts, 1) = 20)
       => renderParts[1].x = 2 * 40

\* two lines of different widths get different starts
C10_Witness ==
  /\ Aligned("center")
  /\ \E s, t \in LineStarts(renderParts) :
       /\ LineTotal(renderParts, s) # LineTotal(renderParts, t)
       /\ LineTotal(renderParts, t) > 0
       /\ renderParts[s].x # renderParts[t].x

\* ======================================================== claims: metrics
\* the font a style asks the height of: size and family
Descriptor(style) == [fontName |-> style.fontName, fontSize |-> style.fontSize]

\* C11: div.offsetHeight is read at most once for a font size and family,
\* whatever else differs between the styles measureHeight is called with,
\* and measureHeight returns the height read for the font times the line
\* spacing of the style.
C11_HeightReadOncePerFont ==
  /\ \A i, j \in 1..Len(offsetHeightReads) :
       i # j => offsetHeightReads[i] # offsetHeightReads[j]
  /\ measured # NoMeasure =>
       /\ \E i \in 1..Len(offsetHeightReads) :
            offsetHeightReads[i] = Descriptor(measured.style)
       /\ <<measured.style.fontSize, measured.style.fontName>>
            \in DOMAIN heightCache
       /\ measured.height
            = heightCache[<<measured.style.fontSize, measured.style.fontName>>]
              * measured.style.lineSpacing

\* style 2 is measured after style 1: one read, height is twice the base
C11_Witness ==
  /\ pc = "idle"
  /\ Len(offsetHeightReads) = 1
  /\ calls >= 2
  /\ measured.style = StylePool[2]
  /\ measured.height = 14

\* the number of maximal runs of equal consecutive entries of a sequence
Runs(seq) == Cardinality({i \in 1..Len(seq) : i = 1 \/ seq[i] # seq[i - 1]})

\* C12: tmpContext is configured once per maximal run of identical styles
\* in the sequence of measureWidth calls.
C12_ConfiguredOncePerRun == applyCalls = Runs(widthCalls)

\* styles 1 and 5 have equal fields and are two objects
C12_Witness ==
  /\ pc = "idle"
  /\ widthCalls = <<1, 1, 5, 1>>
  /\ applyCalls = 3

\* ============================================== claims: styles and heights
\* The command-open tokens still open after the first n tokens, innermost
\* last (for token sequences that Nesting accepts).
RECURSIVE OpenTokens(_, _)
OpenTokens(toks, n) ==
  IF n = 0 THEN <<>>
  ELSE LET p == OpenTokens(toks, n - 1) IN
       IF toks[n].type = "command" THEN Append(p, n)
       ELSE IF toks[n].type = "commandClose" /\ Len(p) > 0
       THEN SubSeq(p, 1, Len(p) - 1)
       ELSE p

\* the style object the command-open token m creates: the base style is
\* the first object, every command-open adds one
StyleObjectOf(toks, m) ==
  1 + Cardinality({j \in 1..m : toks[j].type = "command"})

\* the style in force after the first n tokens
StyleInForce(toks, n) ==
  LET open == OpenTokens(toks, n) IN
    IF open = <<>> THEN 1 ELSE StyleObjectOf(toks, open[Len(open)])

\* for every item the first n tokens call for, the token it comes from
RECURSIVE ItemTokens(_, _)
ItemTokens(toks, n) ==
  IF n = 0 THEN <<>>
  ELSE ItemTokens(toks, n - 1) \o
       (IF toks[n].type = "text" THEN [j \in 1..Len(toks[n].content) |-> n]
        ELSE IF toks[n].type = "newline" THEN <<n>>
        ELSE <<>>)

\* the line height of a style: the height of its font times its line spacing
LineHeightOf(style) ==
  OffsetHeight(style.fontName, style.fontSize) * style.lineSpacing

Interpreted == lastCall.op = "new" /\ Nesting(tokens, pos - 1).ok

\* C13: every item getRenderParts emits has the line height of the style
\* in force at its token as its height, also after a command was closed.
C13_ItemHeightOfCurrentStyle ==
  Interpreted =>
    \A i \in 1..Len(renderParts) :
      renderParts[i].height
        = LineHeightOf(heap[StyleInForce(tokens,
                                        ItemTokens(tokens, pos - 1)[i] - 1)])

\* C14: the current style is the base style while no command is open and
\* the style object of the innermost open command otherwise, so that a
\* close restores the very style that was current before the matching open;
\* a command's style object is the transform of the style in force before
\* it, and every character item carries the style in force at its token.
C14_CloseRestoresOuterStyle ==
  Interpreted =>
    /\ currentStyle = StyleInForce(tokens, pos - 1)
    /\ \A m \in 1..(pos - 1) :
         tokens[m].type = "command" =>
           heap[StyleObjectOf(tokens, m)]
             = textCommandsGet(tokens[m].commandName,
                               heap[StyleInForce(tokens, m - 1)],
                               tokens[m].argument)
    /\ \A i \in 1..Len(renderParts) :
         renderParts[i].type = "character" =>
           renderParts[i].style
             = StyleInForce(tokens, ItemTokens(tokens, pos - 1)[i] - 1)

\* open, text, close: the text carries the new style, the base style is back
C14_Witness ==
  /\ Constructed
  /\ Len(tokens) = 3
  /\ tokens[1].type = "command"
  /\ tokens[2].type = "text"
  /\ tokens[3].type = "commandClose"
  /\ renderParts[1].style = 2
  /\ currentStyle = 1

\* ================================== claims: fixAlignment, heights and widths
\* the number of the line item i is on, the first line being line 1
LineOf(parts, i) ==
  1 + Cardinality({j \in 1..(i - 1) : parts[j].type = "newline"})

\* the greatest height among the items of line k
MaxHeightOfLine(parts, k) ==
  CHOOSE h \in {parts[i].height : i \in 1..Len(parts)} :
    /\ \E i \in 1..Len(parts) : LineOf(parts, i) = k /\ parts[i].height = h
    /\ \A i \in 1..Len(parts) : LineOf(parts, i) = k => parts[i].height <= h

\* the heights the first loop of the last fixAlignment call recorded
Recorded == LineHeights(lastCall.before, 1, 0, <<>>)

\* C15: the height fixAlignment records for a line is the greatest height of
\* the items of that line alone, whatever the heights on earlier lines.
C15_LineHeightOfLineOnly ==
  lastCall.op = "fixAlignment" =>
    \A i \in 1..Len(lastCall.before) :
      Recorded[LineOf(lastCall.before, i)]
        = MaxHeightOfLine(lastCall.before, LineOf(lastCall.before, i))

\* C16, as stated: after fixAlignment the items of the first line have
\* y = yStart, the items of a line share their y, and a line's y is the y
\* of the line before it plus the recorded height of that line before it.
C16_AdvanceByCompletedLine ==
  lastCall.op = "fixAlignment" =>
    \A i \in 1..Len(renderParts) :
      renderParts[i].y
        = IF i = 1 THEN lastCall.yStart
          ELSE IF renderParts[i - 1].type = "newline"
          THEN renderParts[i - 1].y + Recorded[LineOf(renderParts, i) - 1]
          ELSE renderParts[i - 1].y

\* C16, amended: after fixAlignment the items of the first line have
\* y = yStart, the items of a line (its newline item included) share their
\* y, and a line's y is the y of the line before it plus the height recorded
\* for the later line itself; a lone newline item is a line of its own.
C16_AdvanceByNextLine ==
  lastCall.op = "fixAlignment" =>
    \A i \in 1..Len(renderParts) :
      renderParts[i].y
        = IF i = 1 THEN lastCall.yStart
          ELSE IF renderParts[i - 1].type = "newline"
          THEN renderParts[i - 1].y + Recorded[LineOf(renderParts, i)]
          ELSE renderParts[i - 1].y

\* a lone newline of height 7 and a character of height 9 on the line after
\* it: recorded 7 and 9, the character is placed at yStart + 9
C16_Witness ==
  /\ lastCall.op = "fixAlignment"
  /\ Len(renderParts) = 2
  /\ renderParts[1].type = "newline"
  /\ renderParts[2].type = "character"
  /\ Recorded = <<7, 9>>
  /\ renderParts[1].y = lastCall.yStart
  /\ renderParts[2].y = lastCall.yStart + 9

\* item i is a character followed by a character on its line
HasNextCharacter(parts, i) ==
  /\ parts[i].type = "character"
  /\ i < Len(parts)
  /\ parts[i + 1].type = "character"

\* the letter spacing a character item brings along, none for a newline
SpacingOf(item) ==
  IF item.type = "character" THEN heap[item.style].letterSpacing ELSE 0

\* the sum of the widths the items s..e had before the call, with the
\* letter spacing of every character that another character follows
RECURSIVE SpacedWidth(_, _, _)
SpacedWidth(parts, s, e) ==
  IF s > e THEN 0
  ELSE parts[s].width
       + (IF HasNextCharacter(parts, s) THEN SpacingOf(parts[s]) ELSE 0)
       + SpacedWidth(parts, s + 1, e)

\* C17: after the first fixAlignment of freshly interpreted items, a
\* character followed by a character on its line has its measured width plus
\* its own letter spacing as stored width, the last character of a line
\* keeps its measured width, and the line width (seen in mode 'right' as
\* xEnd - x of the first item, x in halves) is the sum of the measured
\* widths plus the letter spacings of all characters but the last.
C17_SpacingOfPreviousCharacter ==
  (lastCall.op = "fixAlignment" /\ calls = 1) =>
    /\ \A i \in 1..Len(renderParts) :
         renderParts[i].width
           = lastCall.before[i].width
             + (IF HasNextCharacter(renderParts, i)
                THEN SpacingOf(renderParts[i]) ELSE 0)
    /\ lastCall.alignment = "right" =>
         \A s \in LineStarts(renderParts) :
           2 * lastCall.xEnd - renderParts[s].x
             = 2 * SpacedWidth(lastCall.before, s, LineEnd(renderParts, s))

\* C20: a second fixAlignment with the arguments of the fixAlignment just
\* before it leaves x, y and width of every item as they were.
C20_RelayoutIdempotent ==
  [][(/\ lastCall.op = "fixAlignment"
      /\ lastCall'.op = "fixAlignment"
      /\ calls' = calls + 1
      /\ lastCall'.alignment = lastCall.alignment
      /\ lastCall'.xStart = lastCall.xStart
      /\ lastCall'.xEnd = lastCall.xEnd
      /\ lastCall'.yStart = lastCall.yStart)
     => renderParts' = renderParts]_vars

\* ========================================================== claims: render
IsCharacter(item) == item.type = "character"

IsStroked(item) ==
  /\ item.type = "character"
  /\ heap[item.style].strokeWidth > 0
  /\ heap[item.style].strokeColor # ""

\* what a draw call shows on the surface: operation, character, position
Shown(op, items) ==
  [k \in 1..Len(items) |->
     <<op, items[k].character, items[k].x, items[k].y>>]

Rendered == lastCall.op = "render"

\* C18: the draw calls of render() are one stroke call for each character
\* item whose style has a stroke width above 0 and a stroke colour, in item
\* order, followed by one fill call for every character item, in item
\* order; newline items are not drawn.
C18_StrokesThenFills ==
  Rendered =>
    [k \in 1..Len(drawn) |->
       <<drawn[k].op, drawn[k].character, drawn[k].x, drawn[k].y>>]
      = Shown("stroke", SelectSeq(renderParts, IsStroked))
          \o Shown("fill", SelectSeq(renderParts, IsCharacter))

\* a character without stroke, then a stroked one: one stroke, two fills
C18_Witness ==
  /\ Rendered
  /\ Len(drawn) = 3
  /\ drawn[1].op = "stroke"
  /\ drawn[2].op = "fill"
  /\ drawn[3].op = "fill"
  /\ drawn[1].style # drawn[2].style

\* the character items in item order, once for each of the two loops
DrawnStyles ==
  LET characters == SelectSeq(renderParts, IsCharacter) IN
    [k \in 1..Len(characters) |-> characters[k].style]

\* C19: at every stroke and fill call of render() the style last applied to
\* the surface is the very style of the item drawn, and a style is applied
\* once for each run of items with the same style over the two loops taken
\* together, the style of the end of the first loop being kept.
C19_AppliedStyleIsItemStyle ==
  Rendered =>
    /\ \A k \in 1..Len(drawn) : drawn[k].applied = drawn[k].style
    /\ ctxApplies = Runs(DrawnStyles \o DrawnStyles)

\* two styles without stroke: the second loop starts with the second style
\* applied and has to apply the first one again
C19_Witness ==
  /\ Rendered
  /\ Len(drawn) = 2
  /\ drawn[1].op = "fill"
  /\ drawn[1].applied = 1
  /\ drawn[2].applied = 2
  /\ ctxApplies = 4

\* ======================================================== claims: Electron
\* the number of entries of seq that equal p
RECURSIVE Count(_, _)
Count(seq, p) ==
  IF seq = <<>> THEN 0
  ELSE (IF Head(seq) = p THEN 1 ELSE 0) + Count(Tail(seq), p)

\* the file paths dispatched to 'content/loadContentPacks', in order
RECURSIVE Loaded(_)
Loaded(dispatches) ==
  IF dispatches = <<>> THEN <<>>
  ELSE (IF Head(dispatches).type = "content/loadContentPacks"
        THEN Head(dispatches).paths ELSE <<>>)
       \o Loaded(Tail(dispatches))

\* the file paths that transactions not yet run are going to dispatch
RECURSIVE Waiting(_)
Waiting(callbacks) ==
  IF callbacks = <<>> THEN <<>>
  ELSE (IF Head(callbacks).type = "content/loadContentPacks"
        THEN DispatchOf(Head(callbacks)).paths ELSE <<>>)
       \o Waiting(Tail(callbacks))

\* the dispatches connectToStore makes of the buffered paths
Batches ==
  SelectSeq(dispatched, LAMBDA d : d.type = "content/loadContentPacks"
                                   /\ d.isArray)

\* C21: with at most one connectToStore call, a file path is never
\* dispatched to 'content/loadContentPacks' more often than it was received;
\* until the call the paths received are buffered in arrival order and none
\* is dispatched; after the call every path received either has been
\* dispatched or waits in a transaction not yet run, the buffered paths are
\* dispatched together in arrival order, and once no transaction is left
\* every path has been dispatched exactly as often as it was received.
C21_EachPathDispatchedOnce ==
  connectCalls <= 1 =>
    /\ connectCalls = 0 =>
         /\ pendingContentPacks = received
         /\ Loaded(dispatched) = <<>>
         /\ Waiting(transactions) = <<>>
    /\ connectCalls = 1 =>
         /\ \A p \in FilePaths :
              Count(Loaded(dispatched), p) + Count(Waiting(transactions), p)
                = Count(received, p)
         /\ pendingContentPacks
              = SubSeq(received, 1, Len(pendingContentPacks))
         /\ \A k \in 1..Len(Batches) :
              k = 1 /\ Batches[k].paths = pendingContentPacks
         /\ transactions = <<>> =>
              \A p \in FilePaths :
                Count(Loaded(dispatched), p) = Count(received, p)

\* two paths buffered and dispatched together, a third one dispatched by
\* itself after the connection, nothing left to run
C21_Witness ==
  /\ connectCalls = 1
  /\ transactions = <<>>
  /\ Len(received) = 3
  /\ Len(pendingContentPacks) = 2
  /\ Len(Batches) = 1
  /\ Len(Loaded(dispatched)) = 3

====
